---- MODULE Spec2Model ----
(***************************************************************************)
(* Five-in-a-row on a growable quadrant board (model.py), the server-side  *)
(* win scan (server/server.py) and the session manager (server/process.py).*)
(*                                                                         *)
(* Python exceptions are values of the model: an operation that raises     *)
(* returns the marker of the exception together with the state as it was   *)
(* at the raise.  Random draws (secrets.choice, secrets.token_bytes) are   *)
(* nondeterministic choices from small sets of tokens.                     *)
(***************************************************************************)
EXTENDS Integers, Sequences, FiniteSets, TLC

\* ------------------------------------------------------------------ bounds
\* largest |x|, |y| of a position handed to an operation
MaxCoord == 5
\* radii handed to a constructor
InitRadii == {1, MaxCoord}
\* ServerProcess.gameLimit, 10 in the source, scaled down
gameLimit == 1
\* ServerProcess.maxCookies, 10000 in the source, scaled down
maxCookies == 2
\* longest players list of a game the model follows
MaxJoins == 3
\* ServerProcess.cookieTimeout in seconds, 600 in the source, scaled down
cookieTimeout == 1
\* last reading of the clock the model follows
MaxTime == 3
\* largest radius a board is grown to by increaseRadius
MaxRadius == 3

\* --------------------------------------------------------- model.py: enums
BLANK == 0
CROSS == 1
NOUGHT == 2
Symbol == {BLANK, CROSS, NOUGHT}

\* value of a Python call that returns None
None == -1
\* value of a Python call that raises (IndexError of a list subscript)
Raised == -2

MoveError == {"SUCCESS", "WRONG_TEAM", "WRONG_PLACE", "WRONG_SYMBOL", "GAME_ALREADY_OVER"}

\* invertTeam returning its argument
invertTeam_identity(sym) == sym

invertTeam(sym) ==
    IF sym = CROSS THEN NOUGHT
    ELSE IF sym = NOUGHT THEN CROSS
    ELSE sym

\* ------------------------------------------------------ model.py: Position
Position(x, y) == [x |-> x, y |-> y]

addTuple(pos, v) == [x |-> pos.x + v[1], y |-> pos.y + v[2]]

Abs(n) == IF n < 0 THEN -n ELSE n

Max(a, b) == IF a >= b THEN a ELSE b

\* Python's ^ on non-negative integers
RECURSIVE Xor(_, _)
Xor(a, b) ==
    IF a = 0 THEN b
    ELSE IF b = 0 THEN a
    ELSE (((a % 2) + (b % 2)) % 2) + 2 * Xor(a \div 2, b \div 2)

\* --------------------------------------------------------- model.py: Board
quartersCount == 4

\* Board.__init__: repr[q][i][j], q in 0..3, lists indexed from 0
Board(radius) ==
    [repr |-> [q \in 0..(quartersCount - 1) |->
                 [i \in 0..(radius - 1) |-> [j \in 0..(radius - 1) |-> BLANK]]],
     hash |-> 0]

getRadius(b) == Cardinality(DOMAIN b.repr[0])

\* <<quarter, i, j>>, or <<>> for None
getReprIndex(pos) ==
    IF pos.x > 0 /\ pos.y > 0 THEN <<1, Abs(pos.x) - 1, Abs(pos.y) - 1>>
    ELSE IF pos.x < 0 /\ pos.y > 0 THEN <<2, Abs(pos.x) - 1, Abs(pos.y) - 1>>
    ELSE IF pos.x < 0 /\ pos.y < 0 THEN <<3, Abs(pos.x) - 1, Abs(pos.y) - 1>>
    ELSE IF pos.x > 0 /\ pos.y < 0 THEN <<4, Abs(pos.x) - 1, Abs(pos.y) - 1>>
    ELSE <<>>

\* increaseRadius allocating fresh quadrants instead of extending the old ones
increaseRadius_fresh(b, radius) ==
    IF getRadius(b) >= radius THEN b
    ELSE [b EXCEPT !.repr =
            [q \in 0..(quartersCount - 1) |->
               [i \in 0..(radius - 1) |-> [j \in 0..(radius - 1) |-> BLANK]]]]

increaseRadius(b, radius) ==
    LET oldRadius == getRadius(b) IN
    IF oldRadius >= radius THEN b
    ELSE [b EXCEPT !.repr =
            [q \in 0..(quartersCount - 1) |->
               [i \in 0..(radius - 1) |->
                  [j \in 0..(radius - 1) |->
                     IF i < oldRadius /\ j < oldRadius THEN b.repr[q][i][j] ELSE BLANK]]]]

hashForPos(pos, sym) == sym * (pos[1] * pos[1]) * pos[2] * pos[3]

\* self.repr[q][i][j] is a valid subscript (all indices are non-negative here)
Subscriptable(b, q, i, j) ==
    /\ q \in DOMAIN b.repr
    /\ i \in DOMAIN b.repr[q]
    /\ j \in DOMAIN b.repr[q][i]

\* [board, exc]: exc is "none", or "IndexError" raised by the read of oldSym
setSymbol(b, pos, sym) ==
    LET triple == getReprIndex(pos) IN
    IF triple = <<>> THEN [board |-> b, exc |-> "none"]
    ELSE LET q == triple[1]
             i == triple[2]
             j == triple[3]
         IN IF ~Subscriptable(b, q, i, j) THEN [board |-> b, exc |-> "IndexError"]
            ELSE LET oldSym == b.repr[q][i][j]
                     h1 == Xor(b.hash, hashForPos(<<q, i, j>>, oldSym))
                     h2 == Xor(h1, hashForPos(<<q, i, j>>, sym))
                 IN [board |-> [repr |-> [b.repr EXCEPT ![q][i][j] = sym], hash |-> h2],
                     exc |-> "none"]

posDifference(b, pos) == Max(0, Max(Abs(pos.x), Abs(pos.y)) - getRadius(b))

fits(b, pos) == posDifference(b, pos) > 0

\* a Symbol, None, or Raised
getSymbol(b, pos) ==
    IF ~fits(b, pos) THEN None
    ELSE LET triple == getReprIndex(pos) IN
         IF triple = <<>> THEN None
         ELSE IF ~Subscriptable(b, triple[1], triple[2], triple[3]) THEN Raised
         ELSE b.repr[triple[1]][triple[2]][triple[3]]

makeFit(b, pos) == increaseRadius(b, getRadius(b) + posDifference(b, pos))

hash(b) == b.hash

\* the bytes dumpByteRepr appends, quarter by quarter, row by row
dumpByteRepr(b) ==
    LET r == getRadius(b) IN
    [n \in 1..(quartersCount * r * r) |->
        b.repr[(n - 1) \div (r * r)][((n - 1) % (r * r)) \div r][(n - 1) % r]]

\* math.isqrt
isqrt(n) == CHOOSE k \in 0..n : k * k <= n /\ (k + 1) * (k + 1) > n

\* [board, exc]: the loop stops at the first it for which buffer[it] is past
\* the end (IndexError) or no Symbol (ValueError); the cells before it are written
loadByteRepr(b, buffer) ==
    LET b1 == increaseRadius(b, isqrt(Len(buffer)) \div 2)
        r == getRadius(b1)
        total == quartersCount * r * r
        bad == {it \in 0..(total - 1) : it >= Len(buffer) \/ buffer[it + 1] \notin Symbol}
        stop == IF bad = {} THEN total ELSE CHOOSE it \in bad : \A o \in bad : it <= o
    IN [board |->
           [b1 EXCEPT !.repr =
              [q \in 0..(quartersCount - 1) |->
                 [i \in 0..(r - 1) |->
                    [j \in 0..(r - 1) |->
                       IF q * r * r + i * r + j < stop
                       THEN buffer[q * r * r + i * r + j + 1]
                       ELSE b1.repr[q][i][j]]]]],
        exc |-> IF bad = {} THEN "none"
                ELSE IF stop >= Len(buffer) THEN "IndexError"
                ELSE "ValueError"]

\* ---------------------------------------- server/server.py: ServerBoard
winCount == 5

\* the inner while loop of orientedPass: "found", "exhausted" or "IndexError"
RECURSIVE innerWalk(_, _, _, _, _, _)
innerWalk(board, innerStep, symbol, wc, cur, cnt) ==
    IF ~fits(board, cur) THEN "exhausted"
    ELSE LET s == getSymbol(board, cur)
             c == IF s = symbol THEN cnt + 1 ELSE 0
         IN IF s = Raised THEN "IndexError"
            ELSE IF c >= wc THEN "found"
            ELSE innerWalk(board, innerStep, symbol, wc, addTuple(cur, innerStep), c)

\* orientedPass with the result of an exhausted scan inverted
orientedPass_foundWhenExhausted(board, innerStep, outerStep, symbol, wc, start) ==
    [found |-> TRUE, start |-> start, exc |-> "none"]

\* [found, start, exc]: start is the Position object as the call leaves it
RECURSIVE orientedPass(_, _, _, _, _, _)
orientedPass(board, innerStep, outerStep, symbol, wc, start) ==
    IF ~fits(board, start) THEN [found |-> FALSE, start |-> start, exc |-> "none"]
    ELSE LET w == innerWalk(board, innerStep, symbol, wc, start, 0) IN
         IF w = "found" THEN [found |-> TRUE, start |-> start, exc |-> "none"]
         ELSE IF w = "IndexError" THEN [found |-> FALSE, start |-> start, exc |-> "IndexError"]
         ELSE orientedPass(board, innerStep, outerStep, symbol, wc, addTuple(start, outerStep))

\* <<innerStep, outerStep, start>>
stepTriples(r) ==
    << <<<<1, 0>>, <<0, -1>>, Position(-r, r)>>,
       <<<<0, -1>>, <<1, 0>>, Position(-r, r)>>,
       <<<<-1, -1>>, <<1, 0>>, Position(-r, r)>>,
       <<<<1, -1>>, <<-1, 0>>, Position(r, r)>> >>

\* the for loop of checkStatus from triple k on; the NOUGHT pass receives the
\* Position object the CROSS pass has advanced
RECURSIVE checkTriples(_, _, _)
checkTriples(b, triples, k) ==
    IF k > Len(triples) THEN BLANK
    ELSE LET t == triples[k]
             pc == orientedPass(b, t[1], t[2], CROSS, winCount, t[3])
             pn == orientedPass(b, t[1], t[2], NOUGHT, winCount, pc.start)
         IN IF pc.exc # "none" THEN Raised
            ELSE IF pc.found THEN CROSS
            ELSE IF pn.exc # "none" THEN Raised
            ELSE IF pn.found THEN NOUGHT
            ELSE checkTriples(b, triples, k + 1)

\* a Symbol, or Raised
checkStatus(b) == checkTriples(b, stepTriples(getRadius(b)), 1)

\* ---------------------------------------------------------- model.py: Game
\* Game.__init__ / ServerGame.__init__
Game(players, initRadius) ==
    [curTeam |-> CROSS, status |-> BLANK, players |-> players, board |-> Board(initRadius)]

\* Game.makeMove with the turn flipped before the placement check
Game_makeMove_flipEarly(g, pos, sym) ==
    IF g.status # BLANK THEN [game |-> g, err |-> "GAME_ALREADY_OVER"]
    ELSE IF g.curTeam # sym THEN [game |-> g, err |-> "WRONG_TEAM"]
    ELSE LET g1 == [g EXCEPT !.board = makeFit(g.board, pos),
                             !.curTeam = invertTeam(g.curTeam)]
         IN IF getSymbol(g1.board, pos) # BLANK THEN [game |-> g1, err |-> "WRONG_PLACE"]
            ELSE IF sym = BLANK THEN [game |-> g1, err |-> "WRONG_SYMBOL"]
            ELSE [game |-> [g1 EXCEPT !.board = setSymbol(g1.board, pos, sym).board],
                  err |-> "SUCCESS"]

\* Game.makeMove without the check of the status
Game_makeMove_noOverCheck(g, pos, sym) ==
    IF g.curTeam # sym THEN [game |-> g, err |-> "WRONG_TEAM"]
    ELSE LET g1 == [g EXCEPT !.board = makeFit(g.board, pos)]
         IN IF getSymbol(g1.board, pos) # BLANK THEN [game |-> g1, err |-> "WRONG_PLACE"]
            ELSE IF sym = BLANK THEN [game |-> g1, err |-> "WRONG_SYMBOL"]
            ELSE [game |-> [g1 EXCEPT !.curTeam = invertTeam(g1.curTeam),
                                      !.board = setSymbol(g1.board, pos, sym).board],
                  err |-> "SUCCESS"]

\* Game.makeMove with the board fitted to pos before the checks
Game_makeMove_fitFirst(g, pos, sym) ==
    LET g1 == [g EXCEPT !.board = makeFit(g.board, pos)]
        cell == getSymbol(g1.board, pos)
    IN IF g.status # BLANK THEN [game |-> g1, err |-> "GAME_ALREADY_OVER"]
       ELSE IF g.curTeam # sym THEN [game |-> g1, err |-> "WRONG_TEAM"]
       ELSE IF cell # BLANK THEN [game |-> g1, err |-> "WRONG_PLACE"]
       ELSE IF sym = BLANK THEN [game |-> g1, err |-> "WRONG_SYMBOL"]
       ELSE [game |-> [g1 EXCEPT !.curTeam = invertTeam(g1.curTeam),
                                 !.board = setSymbol(g1.board, pos, sym).board],
             err |-> "SUCCESS"]

\* Game.makeMove without the check of the turn
Game_makeMove_noTurnCheck(g, pos, sym) ==
    IF g.status # BLANK THEN [game |-> g, err |-> "GAME_ALREADY_OVER"]
    ELSE LET g1 == [g EXCEPT !.board = makeFit(g.board, pos)]
         IN IF getSymbol(g1.board, pos) # BLANK THEN [game |-> g1, err |-> "WRONG_PLACE"]
            ELSE IF sym = BLANK THEN [game |-> g1, err |-> "WRONG_SYMBOL"]
            ELSE [game |-> [g1 EXCEPT !.curTeam = invertTeam(g1.curTeam),
                                      !.board = setSymbol(g1.board, pos, sym).board],
                  err |-> "SUCCESS"]

\* [game, err]: err is a MoveError, or "IndexError" when the call raises
Game_makeMove(g, pos, sym) ==
    IF g.status # BLANK THEN [game |-> g, err |-> "GAME_ALREADY_OVER"]
    ELSE IF g.curTeam # sym THEN [game |-> g, err |-> "WRONG_TEAM"]
    ELSE LET g1 == [g EXCEPT !.board = makeFit(g.board, pos)]
             cell == getSymbol(g1.board, pos)
         IN IF cell = Raised THEN [game |-> g1, err |-> "IndexError"]
            ELSE IF cell # BLANK THEN [game |-> g1, err |-> "WRONG_PLACE"]
            ELSE IF sym = BLANK THEN [game |-> g1, err |-> "WRONG_SYMBOL"]
            ELSE LET g2 == [g1 EXCEPT !.curTeam = invertTeam(g1.curTeam)]
                     w == setSymbol(g2.board, pos, sym)
                 IN IF w.exc # "none" THEN [game |-> g2, err |-> "IndexError"]
                    ELSE [game |-> [g2 EXCEPT !.board = w.board], err |-> "SUCCESS"]

ServerGame_makeMove(g, pos, sym) ==
    LET r == Game_makeMove(g, pos, sym) IN
    IF r.err = "SUCCESS"
    THEN LET st == checkStatus(r.game.board) IN
         IF st = Raised THEN [game |-> r.game, err |-> "IndexError"]
         ELSE [game |-> [r.game EXCEPT !.status = st], err |-> "SUCCESS"]
    ELSE r

\* ------------------------------------------------------------------ state
VARIABLES
    game,            \* a ServerGame object driven directly by its caller
    call,            \* the last call on game and what it returned
    games,           \* ServerProcess.games: GameId -> ServerGame
    players,         \* ServerProcess.players: PlayerId -> Player
    nextPlayerId,    \* ServerProcess.nextPlayerId
    cookieToPlayer,  \* ServerProcess.cookieToPlayer: Cookie -> PlayerId
    cookies,         \* ServerProcess.cookies: Cookie -> Timepoint
    now,             \* time.time()
    last,            \* the last ServerProcess request and its response
    wire,            \* a client request as it arrives (type, declared length, bytes
                     \* read), or a message to serialize
    decoded,         \* what decoding wire returned
    conns            \* the connections accepted by ServerController, one serve task each

gameVars == <<game, call>>
processVars == <<games, players, nextPlayerId, cookieToPlayer, cookies, now, last>>
wireVars == <<wire, decoded, conns>>
vars == <<game, call, games, players, nextPlayerId, cookieToPlayer, cookies, now, last,
          wire, decoded, conns>>

\* the empty dict
EmptyMap == [k \in {} |-> 0]

NoCall == [op |-> "none", pos |-> Position(1, 1), sym |-> BLANK, err |-> "none"]

NoRequest ==
    [op |-> "none", cookie |-> 0, gameId |-> 0, symbol |-> BLANK, pos |-> Position(1, 1),
     verdict |-> "none", chosenSymbol |-> None, board |-> <<>>, hash |-> None,
     status |-> None]

\* no request has arrived and no connection is open
NoWire == [type |-> 0, length |-> 0, buffer |-> <<>>]
NotDecoded == [tag |-> "none"]

WireInit ==
    /\ wire = NoWire
    /\ decoded = NotDecoded
    /\ conns = <<>>

\* ServerProcess.__init__
ProcessInit ==
    /\ games = EmptyMap
    /\ players = EmptyMap
    /\ nextPlayerId = 1
    /\ cookieToPlayer = EmptyMap
    /\ cookies = EmptyMap
    /\ now = 0
    /\ last = NoRequest

\* ------------------------------------------- a ServerGame driven directly
\* positions handed to the game: a row of the first quadrant, a cell of the
\* second and a cell of the fourth
GamePositions ==
    {Position(x, 1) : x \in 1..MaxCoord} \cup {Position(-1, 1), Position(1, -1)}

\* main.py: ServerGame(players, radius)
GameInit ==
    /\ \E r \in InitRadii : game = Game(<<>>, r)
    /\ call = NoCall
    /\ WireInit
    /\ ProcessInit

\* game.makeMove(pos, sym)
GameMove(pos, sym) ==
    LET r == ServerGame_makeMove(game, pos, sym) IN
    /\ game' = r.game
    /\ call' = [op |-> "makeMove", pos |-> pos, sym |-> sym, err |-> r.err]
    /\ UNCHANGED <<processVars, wireVars>>

\* game.board.setSymbol(pos, sym)
BoardSet(pos, sym) ==
    LET w == setSymbol(game.board, pos, sym) IN
    /\ game' = [game EXCEPT !.board = w.board]
    /\ call' = [op |-> "setSymbol", pos |-> pos, sym |-> sym, err |-> w.exc]
    /\ UNCHANGED <<processVars, wireVars>>

GameNext ==
    \/ \E pos \in GamePositions, sym \in Symbol : GameMove(pos, sym)
    \/ \E pos \in GamePositions, sym \in Symbol : BoardSet(pos, sym)

SpecGame == GameInit /\ [][GameNext]_vars

\* --------------------------------- a Game object in any state of its fields
\* cells written directly in SpecGameAny
AnyWritePositions == {Position(1, 1), Position(-1, 1), Position(2, 2)}

\* a Game whose public fields status and curTeam hold any value of their type
GameAnyInit ==
    /\ \E r \in InitRadii, st \in Symbol, t \in {CROSS, NOUGHT} :
          game = [Game(<<>>, r) EXCEPT !.status = st, !.curTeam = t]
    /\ call = NoCall
    /\ WireInit
    /\ ProcessInit

GameAnyNext ==
    \/ \E pos \in GamePositions, sym \in Symbol : GameMove(pos, sym)
    \/ \E pos \in AnyWritePositions, sym \in Symbol : BoardSet(pos, sym)

SpecGameAny == GameAnyInit /\ [][GameAnyNext]_vars

\* ------------------------------------- a Board driven through its methods
\* positions handed to the board: a cell of the first ring, one of the second
\* and one of the fourth quadrant
BoardPositions == {Position(1, 1), Position(-2, -2), Position(1, -1)}

\* boards whose dump is loaded: a blank one and marked ones of radius 1 and 2
DumpBoards ==
    {Board(1),
     setSymbol(Board(1), Position(-1, 1), NOUGHT).board,
     setSymbol(Board(2), Position(2, 2), CROSS).board}

BoardInit ==
    /\ \E r \in 1..(MaxRadius - 1) : game = Game(<<>>, r)
    /\ call = NoCall
    /\ WireInit
    /\ ProcessInit

\* game.board.increaseRadius(radius)
BoardGrow(radius) ==
    /\ game' = [game EXCEPT !.board = increaseRadius(game.board, radius)]
    /\ call' = [op |-> "increaseRadius", pos |-> NoCall.pos, sym |-> BLANK, err |-> "none",
                radius |-> radius]
    /\ UNCHANGED <<processVars, wireVars>>

\* game.board.makeFit(pos)
BoardFit(pos) ==
    /\ game' = [game EXCEPT !.board = makeFit(game.board, pos)]
    /\ call' = [op |-> "makeFit", pos |-> pos, sym |-> BLANK, err |-> "none"]
    /\ UNCHANGED <<processVars, wireVars>>

\* game.board.loadByteRepr(buffer), buffer being the dump of source
BoardLoad(source) ==
    LET l == loadByteRepr(game.board, dumpByteRepr(source)) IN
    /\ game' = [game EXCEPT !.board = l.board]
    /\ call' = [op |-> "loadByteRepr", pos |-> NoCall.pos, sym |-> BLANK, err |-> l.exc,
                source |-> source]
    /\ UNCHANGED <<processVars, wireVars>>

\* game.board.fits(pos) and game.board.getSymbol(pos)
BoardQuery(pos) ==
    /\ call' = [op |-> "getSymbol", pos |-> pos, sym |-> BLANK,
                err |-> IF getSymbol(game.board, pos) = Raised THEN "IndexError" ELSE "none",
                fits |-> fits(game.board, pos), value |-> getSymbol(game.board, pos)]
    /\ UNCHANGED <<game, processVars, wireVars>>

BoardNext ==
    \/ \E pos \in BoardPositions, sym \in Symbol : BoardSet(pos, sym)
    \/ \E radius \in 1..MaxRadius : BoardGrow(radius)
    \/ \E pos \in BoardPositions : BoardFit(pos)
    \/ \E source \in DumpBoards : BoardLoad(source)
    \/ \E pos \in BoardPositions : BoardQuery(pos)
    \/ \E pos \in BoardPositions, sym \in Symbol : GameMove(pos, sym)

SpecBoard == BoardInit /\ [][BoardNext]_vars

\* ------------------------------------- server/process.py: ServerProcess
\* the tokens secrets.token_bytes can return
CookieTokens == 1..maxCookies
\* the ids secrets.choice can return
GameIds == 1..(gameLimit + 1)
\* names of connecting clients
Names == {"A"}
\* radii of makeGame requests
ProcessRadii == {MaxCoord}
\* positions of makeMove requests
ProcessPositions == {Position(1, 1), Position(2, 2)}

\* d[k] = v on a dict
Put(d, k, v) == [x \in (DOMAIN d) \cup {k} |-> IF x = k THEN v ELSE d[x]]

\* Player.__init__
Player(id, name) == [id |-> id, gameId |-> -1, name |-> name, sym |-> BLANK]

Respond(op, fields) == last' = [k \in DOMAIN NoRequest |->
                                  IF k = "op" THEN op
                                  ELSE IF k \in DOMAIN fields THEN fields[k]
                                  ELSE NoRequest[k]]

\* initializeConnection with the limit compared by > instead of >=
initializeConnectionFrom_limitOff(tokens, name) ==
    IF Cardinality(DOMAIN cookies) > maxCookies
    THEN /\ Respond("initializeConnection", [verdict |-> "OVERLOADED"])
         /\ UNCHANGED <<games, players, nextPlayerId, cookieToPlayer, cookies, now>>
    ELSE \E cookie \in tokens \ DOMAIN cookies :
            /\ cookies' = Put(cookies, cookie, now)
            /\ players' = Put(players, nextPlayerId, Player(nextPlayerId, name))
            /\ cookieToPlayer' = Put(cookieToPlayer, cookie, nextPlayerId)
            /\ nextPlayerId' = nextPlayerId + 1
            /\ Respond("initializeConnection", [verdict |-> "SUCCESS", cookie |-> cookie])
            /\ UNCHANGED <<games, now>>

\* initializeConnection without the loop that redraws a cookie already in use
initializeConnectionFrom_noRedraw(tokens, name) ==
    IF Cardinality(DOMAIN cookies) >= maxCookies
    THEN /\ Respond("initializeConnection", [verdict |-> "OVERLOADED"])
         /\ UNCHANGED <<games, players, nextPlayerId, cookieToPlayer, cookies, now>>
    ELSE \E cookie \in tokens :
            /\ cookies' = Put(cookies, cookie, now)
            /\ players' = Put(players, nextPlayerId, Player(nextPlayerId, name))
            /\ cookieToPlayer' = Put(cookieToPlayer, cookie, nextPlayerId)
            /\ nextPlayerId' = nextPlayerId + 1
            /\ Respond("initializeConnection", [verdict |-> "SUCCESS", cookie |-> cookie])
            /\ UNCHANGED <<games, now>>

\* initializeConnection with secrets.token_bytes drawing from tokens
initializeConnectionFrom(tokens, name) ==
    IF Cardinality(DOMAIN cookies) >= maxCookies
    THEN /\ Respond("initializeConnection", [verdict |-> "OVERLOADED"])
         /\ UNCHANGED <<games, players, nextPlayerId, cookieToPlayer, cookies, now>>
    ELSE \E cookie \in tokens \ DOMAIN cookies :
            /\ cookies' = Put(cookies, cookie, now)
            /\ players' = Put(players, nextPlayerId, Player(nextPlayerId, name))
            /\ cookieToPlayer' = Put(cookieToPlayer, cookie, nextPlayerId)
            /\ nextPlayerId' = nextPlayerId + 1
            /\ Respond("initializeConnection", [verdict |-> "SUCCESS", cookie |-> cookie])
            /\ UNCHANGED <<games, now>>

initializeConnection(name) == initializeConnectionFrom(CookieTokens, name)

makeGame(initRadius) ==
    IF Cardinality(DOMAIN games) > gameLimit
    THEN /\ Respond("makeGame", [verdict |-> "OVERLOADED"])
         /\ UNCHANGED <<games, players, nextPlayerId, cookieToPlayer, cookies, now>>
    ELSE \E gameId \in GameIds \ DOMAIN games :
            /\ games' = Put(games, gameId, Game(<<>>, initRadius))
            /\ Respond("makeGame", [verdict |-> "SUCCESS", gameId |-> gameId])
            /\ UNCHANGED <<players, nextPlayerId, cookieToPlayer, cookies, now>>

\* the non-blank symbols of the players of a game, in list order
RECURSIVE takenSymbols(_, _)
takenSymbols(ps, list) ==
    IF list = <<>> THEN <<>>
    ELSE (IF ps[Head(list)].sym # BLANK THEN <<ps[Head(list)].sym>> ELSE <<>>)
             \o takenSymbols(ps, Tail(list))

joinGame(cookie, gameId, symbol) ==
    LET req == [cookie |-> cookie, gameId |-> gameId, symbol |-> symbol] IN
    IF cookie \notin DOMAIN cookieToPlayer
    THEN /\ Respond("joinGame", req @@ [verdict |-> "COOKIE_NOT_FOUND"])
         /\ UNCHANGED <<games, players, nextPlayerId, cookieToPlayer, cookies, now>>
    ELSE IF gameId \notin DOMAIN games
    THEN /\ Respond("joinGame", req @@ [verdict |-> "GAME_NOT_FOUND"])
         /\ UNCHANGED <<games, players, nextPlayerId, cookieToPlayer, cookies, now>>
    ELSE LET id == cookieToPlayer[cookie]
             players1 == [players EXCEPT ![id].gameId = gameId]
             g == games[gameId]
             symbols == takenSymbols(players1, g.players)
         IN IF symbol # BLANK /\ symbols # <<>>
            THEN /\ players' = players1
                 /\ Respond("joinGame", req @@ [verdict |-> "ALREADY_IN_USE"])
                 /\ UNCHANGED <<games, nextPlayerId, cookieToPlayer, cookies, now>>
            ELSE \E chosenSymbol \in (IF symbol # BLANK THEN {symbol}
                                      ELSE IF symbols # <<>> THEN {invertTeam(symbols[1])}
                                      ELSE {CROSS, NOUGHT}) :
                    /\ Len(g.players) < MaxJoins
                    /\ players' = [players1 EXCEPT ![id].sym = chosenSymbol]
                    /\ games' = [games EXCEPT ![gameId].players = Append(g.players, id)]
                    /\ Respond("joinGame",
                               req @@ [verdict |-> "SUCCESS", board |-> dumpByteRepr(g.board),
                                       chosenSymbol |-> chosenSymbol])
                    /\ UNCHANGED <<nextPlayerId, cookieToPlayer, cookies, now>>

\* the checks makeMove, gameStatus and loadBoard start with: the verdict of the
\* failed check, or "SUCCESS"
resolve(cookie) ==
    IF cookie \notin DOMAIN cookieToPlayer THEN "COOKIE_NOT_FOUND"
    ELSE IF players[cookieToPlayer[cookie]].gameId < 0 THEN "PLAYER_NOT_IN_GAME"
    ELSE IF players[cookieToPlayer[cookie]].gameId \notin DOMAIN games THEN "GAME_NOT_FOUND"
    ELSE "SUCCESS"

Process_makeMove(cookie, position) ==
    LET req == [cookie |-> cookie, pos |-> position] IN
    IF resolve(cookie) # "SUCCESS"
    THEN /\ Respond("makeMove", req @@ [verdict |-> resolve(cookie)])
         /\ UNCHANGED <<games, players, nextPlayerId, cookieToPlayer, cookies, now>>
    ELSE LET player == players[cookieToPlayer[cookie]]
             res == ServerGame_makeMove(games[player.gameId], position, player.sym)
         IN /\ games' = [games EXCEPT ![player.gameId] = res.game]
            /\ IF res.err = "SUCCESS"
               THEN Respond("makeMove", req @@ [verdict |-> "SUCCESS",
                                                hash |-> hash(res.game.board),
                                                status |-> res.game.status])
               ELSE Respond("makeMove", req @@ [verdict |-> res.err])
            /\ UNCHANGED <<players, nextPlayerId, cookieToPlayer, cookies, now>>

gameStatus(cookie) ==
    LET req == [cookie |-> cookie] IN
    /\ IF resolve(cookie) # "SUCCESS"
       THEN Respond("gameStatus", req @@ [verdict |-> resolve(cookie)])
       ELSE LET g == games[players[cookieToPlayer[cookie]].gameId] IN
            Respond("gameStatus", req @@ [verdict |-> "SUCCESS", hash |-> hash(g.board),
                                          status |-> g.status])
    /\ UNCHANGED <<games, players, nextPlayerId, cookieToPlayer, cookies, now>>

loadBoard(cookie) ==
    LET req == [cookie |-> cookie] IN
    /\ IF resolve(cookie) # "SUCCESS"
       THEN Respond("loadBoard", req @@ [verdict |-> resolve(cookie)])
       ELSE LET g == games[players[cookieToPlayer[cookie]].gameId] IN
            Respond("loadBoard", req @@ [verdict |-> "SUCCESS",
                                         board |-> dumpByteRepr(g.board)])
    /\ UNCHANGED <<games, players, nextPlayerId, cookieToPlayer, cookies, now>>

Init == ProcessInit /\ WireInit /\ game = Game(<<>>, 1) /\ call = NoCall

Next ==
    \/ \E name \in Names : initializeConnection(name) /\ UNCHANGED <<gameVars, wireVars>>
    \/ \E r \in ProcessRadii : makeGame(r) /\ UNCHANGED <<gameVars, wireVars>>
    \/ \E c \in CookieTokens, id \in GameIds, sym \in Symbol :
          joinGame(c, id, sym) /\ UNCHANGED <<gameVars, wireVars>>
    \/ \E c \in CookieTokens, pos \in ProcessPositions :
          Process_makeMove(c, pos) /\ UNCHANGED <<gameVars, wireVars>>
    \/ \E c \in CookieTokens : gameStatus(c) /\ UNCHANGED <<gameVars, wireVars>>
    \/ \E c \in CookieTokens : loadBoard(c) /\ UNCHANGED <<gameVars, wireVars>>

Spec == Init /\ [][Next]_vars

\* connecting, creating games and joining them, without the requests that
\* play or read a game
JoinNext ==
    \/ \E name \in Names : initializeConnection(name) /\ UNCHANGED <<gameVars, wireVars>>
    \/ \E r \in ProcessRadii : makeGame(r) /\ UNCHANGED <<gameVars, wireVars>>
    \/ \E c \in CookieTokens, id \in GameIds, sym \in Symbol :
          joinGame(c, id, sym) /\ UNCHANGED <<gameVars, wireVars>>

SpecJoin == Init /\ [][JoinNext]_vars

\* ------------------------------------ cookies, the clock and the sweep
\* the tokens secrets.token_bytes can return when only connections are followed
SweepTokens == 1..(maxCookies + 1)
\* names of the clients that connect
SweepNames == {"A", "B"}

\* time.time() advances between two calls
Tick ==
    /\ now < MaxTime
    /\ now' = now + 1
    /\ UNCHANGED <<games, players, nextPlayerId, cookieToPlayer, cookies, last>>

\* d without the keys of ks
Without(d, ks) == [x \in (DOMAIN d) \ ks |-> d[x]]

cleanupOldCookies ==
    LET toDelete == {cookie \in DOMAIN cookies : cookies[cookie] - now > cookieTimeout} IN
    /\ cookies' = Without(cookies, toDelete)
    /\ last' = [NoRequest EXCEPT !.op = "cleanupOldCookies"]
    /\ UNCHANGED <<games, players, nextPlayerId, cookieToPlayer, now>>

CookiesNext ==
    \/ \E name \in SweepNames : initializeConnectionFrom(SweepTokens, name) /\ UNCHANGED <<gameVars, wireVars>>
    \/ cleanupOldCookies /\ UNCHANGED <<gameVars, wireVars>>
    \/ Tick /\ UNCHANGED <<gameVars, wireVars>>

SpecCookies == Init /\ [][CookiesNext]_vars

\* ----------------------------------- model.py: ByteView and the requests
\* largest payload length a header declares
MaxDeclared == 12

Min(a, b) == IF a <= b THEN a ELSE b

\* int.from_bytes(bs, byteorder="big"); the empty slice gives 0
RECURSIVE fromBytes(_)
fromBytes(bs) ==
    IF bs = <<>> THEN 0
    ELSE 256 * fromBytes(SubSeq(bs, 1, Len(bs) - 1)) + bs[Len(bs)]

\* int(x).to_bytes(n, byteorder="big") for 0 <= x < 256^n
RECURSIVE toBytes(_, _)
toBytes(x, n) == IF n = 0 THEN <<>> ELSE toBytes(x \div 256, n - 1) \o <<x % 256>>

ByteView(array, shift) == [array |-> array, shift |-> shift]

\* array[shift : shift + n]: a slice stops at the end of the array
getFirst(view, n) ==
    IF n <= 0 \/ view.shift >= Len(view.array) THEN <<>>
    ELSE SubSeq(view.array, view.shift + 1, Min(view.shift + n, Len(view.array)))

\* the view after takeFirst(n)
advance(view, n) == [view EXCEPT !.shift = view.shift + n]

takeIntFromFirst(view, n) == fromBytes(getFirst(view, n))

Requests ==
    [InitializeConnection |-> 0, MakeGame |-> 1, JoinGame |-> 2, MakeMove |-> 3,
     GameStatus |-> 4, LoadBoard |-> 5]

NoneResult == [tag |-> "None"]
Raise(exc) == [tag |-> "raise", exc |-> exc]

\* bytes.decode("utf-8") of a string of ASCII bytes and bytes 0xF8..0xFF, which
\* no UTF-8 encoding contains: the code points, or UnicodeDecodeError
decodeUtf8(bs) ==
    IF \E n \in DOMAIN bs : bs[n] >= 128 THEN Raise("UnicodeDecodeError")
    ELSE [tag |-> "str", text |-> bs]

InitializeConnectionRequest_deserializeFrom(array, length) ==
    IF length <= 0 THEN NoneResult
    ELSE LET name == decodeUtf8(getFirst(array, length)) IN
         IF name.tag = "raise" THEN name
         ELSE [tag |-> "InitializeConnectionRequest", name |-> name.text]

MakeGameRequest_deserializeFrom(array, length) ==
    IF length # 2 THEN NoneResult
    ELSE [tag |-> "MakeGameRequest", initRadius |-> takeIntFromFirst(array, length)]

\* Symbol(n): the member, or ValueError
SymbolOf(n) == IF n \in Symbol THEN [tag |-> "Symbol", value |-> n] ELSE Raise("ValueError")

JoinGameRequest_deserializeFrom(array, length) ==
    IF length < 2 THEN NoneResult
    ELSE LET cookieLen == takeIntFromFirst(array, 2)
             a1 == advance(array, 2)
             l1 == length - 2
         IN IF l1 < cookieLen THEN NoneResult
            ELSE LET cookie == getFirst(a1, cookieLen)
                     a2 == advance(a1, cookieLen)
                     l2 == l1 - cookieLen
                 IN IF l2 < 2 THEN NoneResult
                    ELSE LET gameIdLen == takeIntFromFirst(a2, 2)
                             a3 == advance(a2, 2)
                             l3 == l2 - 2
                         IN IF l3 < gameIdLen THEN NoneResult
                            ELSE LET gameId == takeIntFromFirst(a3, gameIdLen)
                                     a4 == advance(a3, gameIdLen)
                                     l4 == l3 - gameIdLen
                                 IN IF l4 # 2 THEN NoneResult
                                    ELSE LET symbol == SymbolOf(takeIntFromFirst(a4, 2)) IN
                                         IF symbol.tag = "raise" THEN symbol
                                         ELSE [tag |-> "JoinGameRequest", cookie |-> cookie,
                                               gameId |-> gameId, symbol |-> symbol.value]

\* Position.__init__: the object, or AssertionError on an axis
PositionOf(x, y) ==
    IF x # 0 /\ y # 0 THEN [tag |-> "Position", value |-> Position(x, y)]
    ELSE Raise("AssertionError")

MakeMoveRequest_deserializeFrom(array, length) ==
    IF length < 2 THEN NoneResult
    ELSE LET cookieLen == takeIntFromFirst(array, 2)
             a1 == advance(array, 2)
             l1 == length - 2
         IN IF l1 < cookieLen THEN NoneResult
            ELSE LET cookie == getFirst(a1, cookieLen)
                     a2 == advance(a1, cookieLen)
                     l2 == l1 - cookieLen
                 IN IF l2 < 4 THEN NoneResult
                    ELSE LET x == takeIntFromFirst(a2, 4)
                             a3 == advance(a2, 4)
                             l3 == l2 - 4
                         IN IF l3 # 4 THEN NoneResult
                            ELSE LET y == takeIntFromFirst(a3, 4)
                                     position == PositionOf(x, y)
                                 IN IF position.tag = "raise" THEN position
                                    ELSE [tag |-> "MakeMoveRequest", cookie |-> cookie,
                                          position |-> position.value]

GameStatusRequest_deserializeFrom(array, length) ==
    IF length < 2 THEN NoneResult
    ELSE LET cookieLen == takeIntFromFirst(array, 2) IN
         IF length - 2 # cookieLen THEN NoneResult
         ELSE [tag |-> "GameStatusRequest", cookie |-> getFirst(advance(array, 2), cookieLen)]

LoadBoardRequest_deserializeFrom(array, length) ==
    IF length < 2 THEN NoneResult
    ELSE LET cookieLen == takeIntFromFirst(array, 2) IN
         IF length - 2 # cookieLen THEN NoneResult
         ELSE [tag |-> "LoadBoardRequest", cookie |-> getFirst(advance(array, 2), cookieLen)]

\* -------------------------------------------------- model.py: Protocol
\* the bytes of a request header: type and payload length
requestHeader(type, length) == toBytes(type, 2) \o toBytes(length, 8)

\* Requests(n): the member, or ValueError
RequestsOf(n) ==
    IF n \in {Requests[k] : k \in DOMAIN Requests} THEN [tag |-> "Requests", value |-> n]
    ELSE Raise("ValueError")

\* readClientRequestHeader on the bytes reader.read(2 + 8) returned
readClientRequestHeader(buffer) ==
    LET view == ByteView(buffer, 0)
        requestType == RequestsOf(takeIntFromFirst(view, 2))
    IN IF requestType.tag = "raise" THEN requestType
       ELSE [tag |-> "header", requestType |-> requestType.value,
             length |-> takeIntFromFirst(advance(view, 2), 8)]

deserializeClientRequest(buffer, requestType, length) ==
    LET view == ByteView(buffer, 0) IN
    IF requestType = Requests.InitializeConnection
    THEN InitializeConnectionRequest_deserializeFrom(view, length)
    ELSE IF requestType = Requests.MakeGame
    THEN MakeGameRequest_deserializeFrom(view, length)
    ELSE IF requestType = Requests.JoinGame
    THEN JoinGameRequest_deserializeFrom(view, length)
    ELSE IF requestType = Requests.MakeMove
    THEN MakeMoveRequest_deserializeFrom(view, length)
    ELSE IF requestType = Requests.GameStatus
    THEN GameStatusRequest_deserializeFrom(view, length)
    ELSE IF requestType = Requests.LoadBoard
    THEN LoadBoardRequest_deserializeFrom(view, length)
    ELSE NoneResult

\* the payloads the request classes' serializeInto writes, after the length
InitializeConnectionRequest_payload(name) == name
MakeGameRequest_payload(initRadius) == toBytes(initRadius, 2)
JoinGameRequest_payload(cookie, gameIdBytes, symbol) ==
    toBytes(Len(cookie), 2) \o cookie \o toBytes(Len(gameIdBytes), 2) \o gameIdBytes
        \o toBytes(symbol, 2)
MakeMoveRequest_payload(cookie, x, y) ==
    toBytes(Len(cookie), 2) \o cookie \o toBytes(x, 4) \o toBytes(y, 4)
GameStatusRequest_payload(cookie) == toBytes(Len(cookie), 2) \o cookie
LoadBoardRequest_payload(cookie) == toBytes(Len(cookie), 2) \o cookie

\* ------------------------------------------- requests put on the wire
\* field values clients send: names "A" and an undecodable byte, radii, one
\* cookie and one game id of one byte, symbol values and coordinates in and
\* out of their types
WireNames == {<<65>>, <<255>>}
WireRadii == {0, 1}
WireCookies == {<<1>>}
WireGameIds == {<<1>>}
WireSymbols == {0, 1, 3}
WireCoords == {0, 1}
\* a request type number that is no member of Requests
UnknownType == 6

\* <<type, payload>> of the requests clients send
WireRequests ==
    {<<Requests.InitializeConnection, InitializeConnectionRequest_payload(n)>> : n \in WireNames}
    \cup {<<Requests.MakeGame, MakeGameRequest_payload(r)>> : r \in WireRadii}
    \cup {<<Requests.JoinGame, JoinGameRequest_payload(c, g, sym)>> :
             c \in WireCookies, g \in WireGameIds, sym \in WireSymbols}
    \cup {<<Requests.MakeMove, MakeMoveRequest_payload(c, x, y)>> :
             c \in WireCookies, x \in WireCoords, y \in WireCoords}
    \cup {<<Requests.GameStatus, GameStatusRequest_payload(c)>> : c \in WireCookies}
    \cup {<<Requests.LoadBoard, LoadBoardRequest_payload(c)>> : c \in WireCookies}
    \cup {<<UnknownType, <<>> >>}

\* the first n bytes of bs
Prefix(bs, n) == SubSeq(bs, 1, Min(n, Len(bs)))

\* a request arrives: its header declares any length, and reader.read(length)
\* returns the payload or a shorter prefix of it
CodecInit ==
    /\ \E m \in WireRequests, length \in 0..MaxDeclared, n \in 0..MaxDeclared :
          /\ n <= length
          /\ wire = [type |-> m[1], length |-> length, buffer |-> Prefix(m[2], n)]
    /\ decoded = NotDecoded
    /\ conns = <<>>
    /\ game = Game(<<>>, 1)
    /\ call = NoCall
    /\ ProcessInit

\* decoding as ServerController.serve does it: the header, then the payload
decodeClientRequest(type, length, buffer) ==
    LET h == readClientRequestHeader(requestHeader(type, length)) IN
    IF h.tag = "raise" THEN h
    ELSE deserializeClientRequest(buffer, h.requestType, h.length)

Decode ==
    /\ decoded = NotDecoded
    /\ decoded' = decodeClientRequest(wire.type, wire.length, wire.buffer)
    /\ UNCHANGED <<wire, conns, gameVars, processVars>>

CodecNext == Decode

SpecCodec == CodecInit /\ [][CodecNext]_vars

\* ------------------------------------- model.py: serialize, then deserialize
\* largest game id and largest coordinate magnitude put through the round trip
MaxGameId == 300
MaxWireCoord == 2

\* x >> (8 * n)
RECURSIVE shiftBytes(_, _)
shiftBytes(x, n) == IF n = 0 THEN x ELSE shiftBytes(x \div 256, n - 1)

\* int(x).to_bytes(n, byteorder="big"), unsigned: the bytes, or OverflowError
\* for a negative x and for an x that does not fit n bytes
to_bytes(x, n) ==
    IF x < 0 \/ shiftBytes(x, n) # 0 THEN Raise("OverflowError")
    ELSE [tag |-> "bytes", value |-> toBytes(x, n)]

\* int.bit_length of a non-negative x
RECURSIVE bit_length(_)
bit_length(x) == IF x = 0 THEN 0 ELSE 1 + bit_length(x \div 2)

getByteArrayForInt(x) == to_bytes(x, (Min(bit_length(x), 1) + 7) \div 8)

ProcessResponseError ==
    [SUCCESS |-> 0, COOKIE_NOT_FOUND |-> 1, GAME_NOT_FOUND |-> 2, PLAYER_NOT_IN_GAME |-> 3,
     ALREADY_IN_USE |-> 4, OVERLOADED |-> 5]

ServerResponseError ==
    [SUCCESS |-> 0, BAD_REQUEST |-> 1, TIMED_OUT |-> 2, FORBIDDEN |-> 3, INVALID_ANSWER |-> 4]

\* ProcessResponseError(n) and ServerResponseError(n): the member, or ValueError
ProcessResponseErrorOf(n) ==
    IF n \in {ProcessResponseError[k] : k \in DOMAIN ProcessResponseError}
    THEN [tag |-> "ProcessResponseError", value |-> n]
    ELSE Raise("ValueError")

ServerResponseErrorOf(n) ==
    IF n \in {ServerResponseError[k] : k \in DOMAIN ServerResponseError}
    THEN [tag |-> "ServerResponseError", value |-> n]
    ELSE Raise("ValueError")

\* a game id of None or 0 is falsy and is written as no bytes
MakeGameResponse_serializeInto(res, verdict, gameId) ==
    LET gameIdBytes == IF gameId # None /\ gameId # 0 THEN getByteArrayForInt(gameId)
                       ELSE [tag |-> "bytes", value |-> <<>>]
    IN IF gameIdBytes.tag = "raise" THEN gameIdBytes
       ELSE [tag |-> "bytes",
             value |-> res \o toBytes(2 + Len(gameIdBytes.value), 8) \o toBytes(verdict, 2)
                           \o gameIdBytes.value]

MakeGameResponse_deserializeFrom(array, length) ==
    LET verdict == ProcessResponseErrorOf(takeIntFromFirst(array, 2)) IN
    IF verdict.tag = "raise" THEN verdict
    ELSE [tag |-> "MakeGameResponse", verdict |-> verdict.value,
          gameId |-> takeIntFromFirst(advance(array, 2), length - 2)]

JoinGameRequest_serializeInto(res, cookie, gameId, symbol) ==
    LET gameIdBytes == getByteArrayForInt(gameId) IN
    IF gameIdBytes.tag = "raise" THEN gameIdBytes
    ELSE [tag |-> "bytes",
          value |-> res \o toBytes(2 + Len(cookie) + 2 + Len(gameIdBytes.value) + 2, 8)
                        \o JoinGameRequest_payload(cookie, gameIdBytes.value, symbol)]

MakeMoveRequest_serializeInto(res, cookie, position) ==
    IF to_bytes(position.x, 4).tag = "raise" THEN to_bytes(position.x, 4)
    ELSE IF to_bytes(position.y, 4).tag = "raise" THEN to_bytes(position.y, 4)
    ELSE [tag |-> "bytes",
          value |-> res \o toBytes(2 + Len(cookie) + 4 + 4, 8)
                        \o MakeMoveRequest_payload(cookie, position.x, position.y)]

\* the bytes of bs after the first n
Suffix(bs, n) == SubSeq(bs, n + 1, Len(bs))

\* readServerResponseHeader on the bytes reader.read(2 + 2 + 8) returned
readServerResponseHeader(buffer) ==
    LET view == ByteView(buffer, 0)
        requestType == RequestsOf(takeIntFromFirst(view, 2))
        error == ServerResponseErrorOf(takeIntFromFirst(advance(view, 2), 2))
    IN IF requestType.tag = "raise" THEN requestType
       ELSE IF error.tag = "raise" THEN error
       ELSE [tag |-> "header", requestType |-> requestType.value, error |-> error.value,
             length |-> takeIntFromFirst(advance(view, 4), 8)]

\* serializeServerResponse of a MakeGameResponse, read back by
\* readServerResponseHeader and deserializeServerResponse
MakeGameResponse_roundTrip(verdict, gameId) ==
    LET sent == MakeGameResponse_serializeInto(
                    toBytes(Requests.MakeGame, 2) \o toBytes(ServerResponseError.SUCCESS, 2),
                    verdict, gameId)
    IN IF sent.tag = "raise" THEN sent
       ELSE LET h == readServerResponseHeader(Prefix(sent.value, 2 + 2 + 8)) IN
            IF h.tag = "raise" THEN h
            ELSE IF h.requestType # Requests.MakeGame THEN NoneResult
            ELSE MakeGameResponse_deserializeFrom(
                     ByteView(Prefix(Suffix(sent.value, 2 + 2 + 8), h.length), 0), h.length)

\* serializeClientRequest output read back by readClientRequestHeader and
\* deserializeClientRequest
clientRoundTrip(sent) ==
    IF sent.tag = "raise" THEN sent
    ELSE LET h == readClientRequestHeader(Prefix(sent.value, 2 + 8)) IN
         IF h.tag = "raise" THEN h
         ELSE deserializeClientRequest(Prefix(Suffix(sent.value, 2 + 8), h.length),
                                       h.requestType, h.length)

JoinGameRequest_roundTrip(cookie, gameId, symbol) ==
    clientRoundTrip(JoinGameRequest_serializeInto(toBytes(Requests.JoinGame, 2),
                                                  cookie, gameId, symbol))

MakeMoveRequest_roundTrip(cookie, position) ==
    clientRoundTrip(MakeMoveRequest_serializeInto(toBytes(Requests.MakeMove, 2),
                                                  cookie, position))

\* the positions Position.__init__ accepts, in all four quadrants
WirePositions ==
    {Position(x, y) : x \in (-MaxWireCoord..MaxWireCoord) \ {0},
                      y \in (-MaxWireCoord..MaxWireCoord) \ {0}}

\* a message to send: a successful MakeGameResponse or a JoinGameRequest with
\* a game id, or a MakeMoveRequest with a position
RoundTripInit ==
    /\ \E message \in {"MakeGameResponse", "JoinGameRequest", "MakeMoveRequest"},
          gameId \in 0..MaxGameId, position \in WirePositions :
          /\ message = "MakeMoveRequest" => gameId = 0
          /\ message # "MakeMoveRequest" => position = Position(1, 1)
          /\ wire = [message |-> message, cookie |-> <<1>>, gameId |-> gameId,
                     symbol |-> CROSS, position |-> position]
    /\ decoded = NotDecoded
    /\ conns = <<>>
    /\ game = Game(<<>>, 1)
    /\ call = NoCall
    /\ ProcessInit

RoundTripMakeGameResponse ==
    /\ decoded = NotDecoded
    /\ wire.message = "MakeGameResponse"
    /\ decoded' = MakeGameResponse_roundTrip(ProcessResponseError.SUCCESS, wire.gameId)
    /\ UNCHANGED <<wire, conns, gameVars, processVars>>

RoundTripJoinGameRequest ==
    /\ decoded = NotDecoded
    /\ wire.message = "JoinGameRequest"
    /\ decoded' = JoinGameRequest_roundTrip(wire.cookie, wire.gameId, wire.symbol)
    /\ UNCHANGED <<wire, conns, gameVars, processVars>>

RoundTripMakeMoveRequest ==
    /\ decoded = NotDecoded
    /\ wire.message = "MakeMoveRequest"
    /\ decoded' = MakeMoveRequest_roundTrip(wire.cookie, wire.position)
    /\ UNCHANGED <<wire, conns, gameVars, processVars>>

RoundTripNext ==
    \/ RoundTripMakeGameResponse
    \/ RoundTripJoinGameRequest
    \/ RoundTripMakeMoveRequest

SpecRoundTrip == RoundTripInit /\ [][RoundTripNext]_vars

\* ------------------------- server/process.py: ServerController.serve
\* connections accepted over a run
MaxConns == 2

\* the dict key of the cookie a request carries: the token of a one-byte
\* cookie, and 0, which no connection was given, for any other byte string
CookieOf(bytes) == IF Len(bytes) = 1 THEN bytes[1] ELSE 0

\* exceptions a ServerProcess operation ends with
Exceptions == {"AssertionError", "IndexError"}

\* self.process.<operation>(...) on a decoded request
Invoke(request) ==
    IF request.tag = "InitializeConnectionRequest" THEN initializeConnection(request.name)
    ELSE IF request.tag = "MakeGameRequest"
    THEN IF request.initRadius < 1 /\ ~(Cardinality(DOMAIN games) > gameLimit)
         THEN \* Board.__init__ asserts radius > 0 before the game is stored
              /\ Respond("makeGame", [verdict |-> "AssertionError"])
              /\ UNCHANGED <<games, players, nextPlayerId, cookieToPlayer, cookies, now>>
         ELSE makeGame(request.initRadius)
    ELSE IF request.tag = "JoinGameRequest"
    THEN joinGame(CookieOf(request.cookie), request.gameId, request.symbol)
    ELSE IF request.tag = "MakeMoveRequest"
    THEN Process_makeMove(CookieOf(request.cookie), request.position)
    ELSE IF request.tag = "GameStatusRequest" THEN gameStatus(CookieOf(request.cookie))
    ELSE loadBoard(CookieOf(request.cookie))

\* a connection whose serve task awaits the request header
Connection(type, payload) ==
    [pc |-> "header", sentType |-> type, sent |-> payload, requestType |-> 0, length |-> 0,
     buffer |-> <<>>, responses |-> <<>>, invoked |-> FALSE]

\* asyncio.start_server accepts a client and starts serve for it
Accept(m) ==
    /\ Len(conns) < MaxConns
    /\ conns' = Append(conns, Connection(m[1], m[2]))
    /\ UNCHANGED <<processVars, gameVars, wire, decoded>>

\* serve resumes from the header read and awaits the payload read
HeaderArrives(c) ==
    /\ conns[c].pc = "header"
    /\ LET h == readClientRequestHeader(requestHeader(conns[c].sentType, Len(conns[c].sent))) IN
       IF h.tag = "raise"
       THEN conns' = [conns EXCEPT ![c].pc = "raised"]
       ELSE conns' = [conns EXCEPT ![c].pc = "payload",
                                   ![c].requestType = h.requestType,
                                   ![c].length = h.length]
    /\ UNCHANGED <<processVars, gameVars, wire, decoded>>

Serializable(response) == response.verdict \notin Exceptions

\* serve suspended inside initializeConnection, after self.cookies[cookie] = ...
PayloadArrives_suspendedInside(c, n) ==
    /\ conns[c].pc = "payload"
    /\ n <= Min(conns[c].length, Len(conns[c].sent))
    /\ conns[c].requestType = Requests.InitializeConnection
    /\ Cardinality(DOMAIN cookies) < maxCookies
    /\ \E cookie \in CookieTokens \ DOMAIN cookies : cookies' = Put(cookies, cookie, now)
    /\ conns' = [conns EXCEPT ![c].buffer = Prefix(conns[c].sent, n)]
    /\ UNCHANGED <<games, players, nextPlayerId, cookieToPlayer, now, last>>
    /\ UNCHANGED <<gameVars, wire, decoded>>

\* serve resumes from the payload read with the first n bytes of the payload,
\* decodes, calls the operation, writes the response and awaits the drain
PayloadArrives(c, n) ==
    /\ conns[c].pc = "payload"
    /\ n <= Min(conns[c].length, Len(conns[c].sent))
    /\ LET buffer == Prefix(conns[c].sent, n)
           request == deserializeClientRequest(buffer, conns[c].requestType, conns[c].length)
       IN IF request.tag = "raise"
          THEN /\ conns' = [conns EXCEPT ![c].pc = "raised", ![c].buffer = buffer]
               /\ UNCHANGED processVars
          ELSE IF request.tag = "None"
          THEN /\ conns' = [conns EXCEPT
                              ![c].pc = "drain",
                              ![c].buffer = buffer,
                              ![c].responses =
                                  Append(@, [requestType |-> conns[c].requestType,
                                             error |-> "BAD_REQUEST", length |-> 0])]
               /\ UNCHANGED processVars
          ELSE /\ Invoke(request)
               /\ IF Serializable(last')
                  THEN conns' = [conns EXCEPT
                                   ![c].pc = "drain",
                                   ![c].buffer = buffer,
                                   ![c].invoked = TRUE,
                                   ![c].responses =
                                       Append(@, [requestType |-> conns[c].requestType,
                                                  error |-> "SUCCESS", body |-> last'])]
                  ELSE conns' = [conns EXCEPT ![c].pc = "raised", ![c].buffer = buffer,
                                              ![c].invoked = TRUE]
    /\ UNCHANGED <<gameVars, wire, decoded>>

\* serve resumes from writer.drain() and closes the connection
Drained(c) ==
    /\ conns[c].pc = "drain"
    /\ conns' = [conns EXCEPT ![c].pc = "closed"]
    /\ UNCHANGED <<processVars, gameVars, wire, decoded>>

\* <<type, payload>> of the requests sent to the server: one well-formed
\* request of each type, a MakeGame of radius 0, a MakeMove on an axis and a
\* header of unknown type
ServeRequests ==
    {<<Requests.InitializeConnection, InitializeConnectionRequest_payload(<<65>>)>>,
     <<Requests.JoinGame, JoinGameRequest_payload(<<1>>, <<1>>, BLANK)>>,
     <<Requests.GameStatus, GameStatusRequest_payload(<<1>>)>>,
     <<Requests.LoadBoard, LoadBoardRequest_payload(<<1>>)>>,
     <<UnknownType, <<>> >>}
    \cup {<<Requests.MakeGame, MakeGameRequest_payload(r)>> : r \in WireRadii}
    \cup {<<Requests.MakeMove, MakeMoveRequest_payload(<<1>>, x, 1)>> : x \in WireCoords}

ServeNext ==
    \/ \E m \in ServeRequests : Accept(m)
    \/ \E c \in DOMAIN conns : HeaderArrives(c)
    \/ \E c \in DOMAIN conns, n \in 0..MaxDeclared : PayloadArrives(c, n)
    \/ \E c \in DOMAIN conns : Drained(c)

SpecServe == Init /\ [][ServeNext]_vars

\* ------------------------------------------------ vocabulary of the claims
\* the mark stored for pos; blank where the arrays hold no cell for pos
CellAt(b, pos) ==
    LET t == getReprIndex(pos) IN
    IF t # <<>> /\ Subscriptable(b, t[1], t[2], t[3]) THEN b.repr[t[1]][t[2]][t[3]]
    ELSE BLANK

\* the positions within |x|, |y| <= r
Positions(r) == {Position(x, y) : x \in ((-r)..r) \ {0}, y \in ((-r)..r) \ {0}}

\* rows and columns numbered without the excluded axis: -1 and 1 are neighbours
Idx(c) == IF c > 0 THEN c - 1 ELSE c
Coord(n) == IF n >= 0 THEN n + 1 ELSE n
Step(pos, d, k) == Position(Coord(Idx(pos.x) + k * d[1]), Coord(Idx(pos.y) + k * d[2]))

Orientations == {<<1, 0>>, <<0, 1>>, <<1, 1>>, <<1, -1>>}

\* n consecutive marks sym in one of the 4 orientations
HasRunOf(b, sym, n) ==
    \E p \in Positions(getRadius(b)), d \in Orientations :
        \A k \in 0..(n - 1) : CellAt(b, Step(p, d, k)) = sym

HasRun(b, sym) == HasRunOf(b, sym, 5)

Rejections == MoveError \ {"SUCCESS"}

\* C1: on an in-progress game, makeMove(pos, sym) with sym the current turn and
\* the cell at pos blank returns SUCCESS, the cell at pos then holds sym and
\* every other cell keeps its value (pos inside or beyond the radius)
C1_LegalMoveAccepted ==
    [][(/\ call'.op = "makeMove"
        /\ game.status = BLANK
        /\ call'.sym = game.curTeam
        /\ call'.sym \in {CROSS, NOUGHT}
        /\ CellAt(game.board, call'.pos) = BLANK)
       => (/\ call'.err = "SUCCESS"
           /\ CellAt(game'.board, call'.pos) = call'.sym
           /\ \A p \in Positions(MaxCoord) \ {call'.pos} :
                 CellAt(game'.board, p) = CellAt(game.board, p))]_vars

C3_GameOverTerminal ==
    [][game.status # BLANK
       => /\ game'.status = game.status
          /\ game'.curTeam = game.curTeam
          /\ call'.op = "makeMove"
                => /\ call'.err = "GAME_ALREADY_OVER"
                   /\ game' = game]_vars

\* a finished game with a mark on its board has rejected a move of the side to move
C3_Witness ==
    /\ game.status # BLANK
    /\ call.op = "makeMove"
    /\ call.sym = game.curTeam
    /\ call.err = "GAME_ALREADY_OVER"
    /\ CellAt(game.board, Position(1, 1)) # BLANK

\* C4: a board with a run of 5 or more marks of one symbol makes checkStatus
\* return that symbol, and an accepted move sets the status to it
C4_WinDetected ==
    \A sym \in {CROSS, NOUGHT} :
        (HasRun(game.board, sym) /\ ~HasRun(game.board, invertTeam(sym)))
            => /\ checkStatus(game.board) = sym
               /\ (call.op = "makeMove" /\ call.err = "SUCCESS") => game.status = sym

Range(list) == {list[n] : n \in DOMAIN list}

\* the state the scenario is in after makeGame(5) and the joins of A and of B
ScenarioJoined(G, a, b) ==
    /\ G \in DOMAIN games
    /\ a \in DOMAIN cookieToPlayer
    /\ b \in DOMAIN cookieToPlayer
    /\ cookieToPlayer[a] # cookieToPlayer[b]
    /\ games[G].players = <<cookieToPlayer[a], cookieToPlayer[b]>>
    /\ players[cookieToPlayer[a]].gameId = G
    /\ players[cookieToPlayer[b]].gameId = G
    /\ players[cookieToPlayer[a]].sym = CROSS
    /\ players[cookieToPlayer[b]].sym = NOUGHT
    /\ games[G].status = BLANK
    /\ getRadius(games[G].board) = 5

InNoGame(id) == \A G \in DOMAIN games : id \notin Range(games[G].players)

CookiesBoundOneToOne ==
    /\ \A c \in DOMAIN cookies :
          c \in DOMAIN cookieToPlayer /\ cookieToPlayer[c] \in DOMAIN players
    /\ \A c \in DOMAIN cookies, d \in DOMAIN cookies :
          c # d => cookieToPlayer[c] # cookieToPlayer[d]
    /\ \A p \in DOMAIN players, q \in DOMAIN players :
          p # q => players[p].id # players[q].id

C13_DecodeNeverRaises ==
    decoded.tag # "raise"

\* fewer bytes arrived than the header declared
ShortRead(conn) == Len(conn.buffer) < conn.length

Decodes(conn) ==
    deserializeClientRequest(conn.buffer, conn.requestType, conn.length).tag
        \notin {"None", "raise"}

\* C14: every serve task writes exactly one response and then closes its
\* connection, never ending otherwise; when the read was short or the payload
\* does not decode, the response is BAD_REQUEST with a zero-length payload and
\* no ServerProcess operation was invoked
C14_OneCyclePerConnection ==
    \A c \in DOMAIN conns :
        /\ conns[c].pc # "raised"
        /\ Len(conns[c].responses) = (IF conns[c].pc \in {"drain", "closed"} THEN 1 ELSE 0)
        /\ (conns[c].pc \in {"drain", "closed"} /\ (ShortRead(conns[c]) \/ ~Decodes(conns[c])))
              => /\ conns[c].responses[1].error = "BAD_REQUEST"
                 /\ conns[c].responses[1].length = 0
                 /\ ~conns[c].invoked

sharedState == <<games, players, nextPlayerId, cookieToPlayer, cookies>>

Square(b) ==
    \A q \in DOMAIN b.repr :
        /\ DOMAIN b.repr[q] = 0..(getRadius(b) - 1)
        /\ \A i \in DOMAIN b.repr[q] : DOMAIN b.repr[q][i] = 0..(getRadius(b) - 1)

\* C15: over increaseRadius, makeFit, setSymbol and makeMove the radius never
\* decreases, the four quadrants stay square arrays of side radius, and a step
\* that grows the board keeps every cell it had, in the arrays and at its
\* (x, y), and adds blank cells only
C15_MonotonicGrowth ==
    [][call'.op \in {"increaseRadius", "makeFit", "setSymbol", "makeMove"}
       => LET old == game.board
              new == game'.board
          IN /\ getRadius(new) >= getRadius(old)
             /\ Square(new)
             /\ DOMAIN new.repr = DOMAIN old.repr
             /\ getRadius(new) > getRadius(old)
                   => /\ \A q \in DOMAIN new.repr, i \in 0..(getRadius(new) - 1),
                            j \in 0..(getRadius(new) - 1) :
                            new.repr[q][i][j] =
                                IF i < getRadius(old) /\ j < getRadius(old)
                                THEN old.repr[q][i][j] ELSE BLANK
                      /\ \A pos \in Positions(getRadius(old)) :
                            CellAt(new, pos) = CellAt(old, pos)]_vars

\* a board holding marks in two quadrants has just been grown to the largest radius
C15_Witness ==
    /\ call.op \in {"increaseRadius", "makeFit"}
    /\ getRadius(game.board) = MaxRadius
    /\ CellAt(game.board, Position(1, 1)) = CROSS
    /\ CellAt(game.board, Position(-2, -2)) = NOUGHT

\* C16: after loadByteRepr of the dump of a board B into a board of any
\* radius, the load has not failed and the cell stored for every position
\* within B's radius is the cell of B
C16_DumpLoadRoundTrip ==
    [][call'.op = "loadByteRepr"
       => /\ call'.err = "none"
          /\ \A pos \in Positions(getRadius(call'.source)) :
                CellAt(game'.board, pos) = CellAt(call'.source, pos)]_vars

\* what the order of checks of makeMove gives for a game, a position and a symbol
ExpectedMoveResult(g, pos, sym) ==
    IF g.status # BLANK THEN "GAME_ALREADY_OVER"
    ELSE IF sym # g.curTeam THEN "WRONG_TEAM"
    ELSE IF CellAt(g.board, pos) # BLANK THEN "WRONG_PLACE"
    ELSE IF sym = BLANK THEN "WRONG_SYMBOL"
    ELSE "SUCCESS"

\* C18: makeMove returns the first applicable of GAME_ALREADY_OVER (status
\* non-blank), WRONG_TEAM (symbol differs from the turn), WRONG_PLACE (target
\* cell not blank), WRONG_SYMBOL (symbol blank) and SUCCESS; WRONG_PLACE comes
\* only for a cell holding cross or nought, and an occupied cell keeps its mark
C18_CheckOrder ==
    [][call'.op = "makeMove"
       => /\ call'.err = ExpectedMoveResult(game, call'.pos, call'.sym)
          /\ call'.err = "WRONG_PLACE" => CellAt(game.board, call'.pos) \in {CROSS, NOUGHT}
          /\ CellAt(game.board, call'.pos) # BLANK
                => CellAt(game'.board, call'.pos) = CellAt(game.board, call'.pos)]_vars

InBounds(b, pos) == Max(Abs(pos.x), Abs(pos.y)) <= getRadius(b)

\* C19: fits(pos) is true exactly when max(|x|, |y|) <= radius, and
\* getSymbol(pos) returns the stored symbol within the bounds and blank
\* outside them, without failing
C19_BoundsQueries ==
    call.op = "getSymbol"
        => /\ call.fits = InBounds(game.board, call.pos)
           /\ call.err = "none"
           /\ call.value = (IF InBounds(game.board, call.pos)
                            THEN CellAt(game.board, call.pos) ELSE BLANK)

\* the XOR of hashForPos over the cells of the sequence of <<q, i, j>>
RECURSIVE XorCells(_, _)
XorCells(b, cells) ==
    IF cells = <<>> THEN 0
    ELSE Xor(hashForPos(Head(cells), b.repr[Head(cells)[1]][Head(cells)[2]][Head(cells)[3]]),
             XorCells(b, Tail(cells)))

\* the cells of a board, quarter by quarter, row by row
AllCells(b) ==
    LET r == getRadius(b) IN
    [n \in 1..(quartersCount * r * r) |->
        <<(n - 1) \div (r * r), ((n - 1) % (r * r)) \div r, (n - 1) % r>>]

\* C20: over setSymbol, increaseRadius and loadByteRepr the stored hash is the
\* XOR, over all cells of the four quadrants, of hashForPos of the cell's
\* (quadrant, i, j) and symbol
C20_HashConsistency ==
    hash(game.board) = XorCells(game.board, AllCells(game.board))

C22_GameIdRoundTrip ==
    (decoded # NotDecoded /\ wire.message \in {"MakeGameResponse", "JoinGameRequest"})
        => /\ decoded.tag = wire.message
           /\ decoded.gameId = wire.gameId

\* C23: a MakeMoveRequest for a position off the axes, in any quadrant,
\* serializes and deserializes to a request with the same x and y
C23_PositionRoundTrip ==
    (decoded # NotDecoded /\ wire.message = "MakeMoveRequest")
        => /\ decoded.tag = "MakeMoveRequest"
           /\ decoded.position = wire.position

C26_RejectedMoveKeepsState ==
    [][(call'.op = "makeMove" /\ call'.err \in Rejections)
       => /\ game'.curTeam = game.curTeam
          /\ game'.status = game.status
          /\ hash(game'.board) = hash(game.board)
          /\ \A p \in Positions(getRadius(game'.board)) :
                CellAt(game'.board, p) = CellAt(game.board, p)
          /\ call'.err \in {"GAME_ALREADY_OVER", "WRONG_TEAM"}
                => getRadius(game'.board) = getRadius(game.board)]_vars

\* a move on a cell beyond the radius of a marked board with a non-zero hash
\* has been rejected for the turn
C26_Witness ==
    /\ call.op = "makeMove"
    /\ call.err = "WRONG_TEAM"
    /\ ~InBounds(game.board, call.pos)
    /\ hash(game.board) # 0
    /\ CellAt(game.board, Position(2, 2)) # BLANK

\* C27: the turn is always cross or nought, makeMove never returns
\* WRONG_SYMBOL, and a move claiming the blank symbol is rejected with
\* WRONG_TEAM or GAME_ALREADY_OVER
C27_NoWrongSymbol ==
    /\ game.curTeam \in {CROSS, NOUGHT}
    /\ call.op = "makeMove"
          => /\ call.err # "WRONG_SYMBOL"
             /\ call.sym = BLANK => call.err \in {"WRONG_TEAM", "GAME_ALREADY_OVER"}

\* a move claiming the blank symbol on a blank cell has been rejected for the turn
C27_Witness ==
    /\ call.op = "makeMove"
    /\ call.sym = BLANK
    /\ call.err = "WRONG_TEAM"
    /\ CellAt(game.board, call.pos) = BLANK

\* C28: setSymbol writing a non-blank symbol to a blank cell yields a board
\* hash different from the hash before the write
C28_MarkChangesHash ==
    [][(/\ call'.op = "setSymbol"
        /\ call'.err = "none"
        /\ call'.sym # BLANK
        /\ CellAt(game.board, call'.pos) = BLANK
        /\ CellAt(game'.board, call'.pos) = call'.sym)
       => hash(game'.board) # hash(game.board)]_vars

====
